---- MODULE Spec2Model ----
(***************************************************************************)
(* Session / connection-resilience layer of the school application:        *)
(* AuthProvider (contexts/AuthContext, second revision in                  *)
(* src/unnamed/part_004 lines 230-604), the reachability probe             *)
(* checkSupabaseConnection (integrations/supabase/client.ts) and the       *)
(* ConnectionErrorHandler component (src/unnamed/part_002 lines 729-882).  *)
(* Around it: the Index page's view selection and redirect                  *)
(* (src/unnamed/part_003 lines 639-798), the sign-up payload built by      *)
(* Auth.handleSignUp and signUp, the AnnouncementForm's onSubmit and the   *)
(* Notifications sheet of the dashboards.                                  *)
(*                                                                         *)
(* Scheduling is the JavaScript event loop: every action below is one run  *)
(* of a callback or of an async function from one await to the next.       *)
(* Time is counted in seconds (setTimeout delays of 5000 ms, 8000 ms are   *)
(* 5 and 8); a timer holds the time left until it fires, -1 when it is     *)
(* not armed, and Tick lets one second pass. The abort timer of a profile  *)
(* fetch races only against its own query, whose latency is unknown: it is *)
(* not counted down and may fire at any moment while the query is pending. *)
(***************************************************************************)
EXTENDS Integers, Sequences, FiniteSets, TLC

\* ---------------------------------------------------------------- bounds
MaxInits == 2          \* initializeAuth invocations (the effect's and re-runs)
MaxFetches == 2        \* fetchProfile calls in flight at once
MaxRetries == 2        \* retryConnection calls in flight at once
MaxRetryCount == 4     \* cap of ConnectionErrorHandler.retryCount
AgeCap == 31           \* cap of the handler's observed-error age
MaxProbes == 3         \* direct probe calls observed
MaxSubmits == 2        \* AnnouncementForm.onSubmit calls in flight at once
MaxInserts == 3        \* cap of the counted announcement inserts
MaxCalls == 2          \* Notifications calls in flight at once

\* ------------------------------------------------------ program constants
SESSION_TIMEOUT == 8       \* setTimeout(..., 8000) of the session race
RETRY_BASE == 5            \* 5000 * (retryCount + 1)
MAX_AUTO_RETRIES == 3      \* retryCount < 3

Users == {"u1", "u2"}
NoUser == "null"
NoProfile == "null"
NoTimer == -1

\* Messages the code stores in connectionError.message / code.
MsgProbe == "Cannot reach Supabase server. Please check your internet connection."
MsgSessionTimeout == "Session fetch timeout"
MsgNoRows == "JSON object requested, multiple (or no) rows returned"
MsgAbort == "AbortError: The user aborted a request."
MsgFetchThrown == "Failed to fetch"
MsgSignInConn == "Connection issue detected. Please check your internet or try again later."
NoCode == "undefined"

VARIABLES
    user,             \* useState<User | null>: the session user's id
    profile,          \* useState<Profile | null>: the profile row's id
    loading,          \* useState(true)
    connectionError,  \* useState<ConnectionError>
    isActive,         \* the effect's liveness flag
    authSubscription, \* the effect's subscription handle (0: null)
    rerendered,       \* the provider has rendered again since mounting
    subs,             \* backend: the subscriptions not yet unsubscribed
    nextSub,          \* backend: the next subscription handle
    netUp,            \* backend: the health endpoint answers
    bypass,           \* client.ts revision: BYPASS_CONNECTION_CHECK
    backendSession,   \* backend: the persisted session's user
    inits,            \* the invocations of initializeAuth
    fetches,          \* the fetchProfile calls in flight
    retries,          \* the retryConnection calls in flight
    ceh,              \* the ConnectionErrorHandler instance
    signin,           \* the signIn call in progress
    signup,           \* the signUp call in progress
    signout,          \* the signOut call in progress
    route,            \* the router's location
    probe,            \* the direct calls of checkSupabaseConnection observed
    form,             \* the AnnouncementForm instance
    notif,            \* the Notifications instance
    lastAttempt,      \* outcome of the most recent completed backend attempt
    lastReturn        \* the most recently settled operation and its result

provider == <<user, profile, loading, connectionError>>
vars == <<user, profile, loading, connectionError, isActive, authSubscription,
          rerendered, subs, nextSub, netUp, bypass, backendSession, inits,
          fetches, retries, ceh, signin, signup, signout, route, lastAttempt,
          lastReturn, probe, form, notif>>

NoError == [isError |-> FALSE, message |-> "", code |-> NoCode]
ConnErr(m, c) == [isError |-> TRUE, message |-> m, code |-> c]

IdleInit == [pc |-> "unused", timer |-> NoTimer, waited |-> 0, late |-> "none"]
NoCeh == [mounted |-> FALSE, retryCount |-> 0, timer |-> NoTimer,
          fnDefined |-> FALSE, age |-> 0, clean |-> FALSE]
NoReturn == [op |-> "none", value |-> "none", error |-> ""]
Returned(op, v) == [op |-> op, value |-> v, error |-> ""]
Rejected(op, e) == [op |-> op, value |-> "rejected", error |-> e]
IdleSignIn == [pc |-> "idle", error |-> "", probed |-> FALSE]
NoRow == [k \in {} |-> ""]
IdleSignUp == [pc |-> "idle", role |-> "none", id |-> NoUser, calls |-> <<>>,
               input |-> NoRow, row |-> NoRow]
IdleSignOut == [pc |-> "idle", calls |-> 0]
HomeRoute == "/"
AuthRoute == "/auth"
NoProbe == [n |-> 0, connected |-> FALSE, net |-> FALSE, session |-> NoUser]
IdleForm == [role |-> "none", isSubmitting |-> FALSE, error |-> "",
             pending |-> 0, inserts |-> 0, toast |-> "none"]
NotifIds == {"1", "2", "3"}
NoList == [i \in NotifIds |-> "absent"]
NoNotif == [open |-> FALSE, deps |-> <<FALSE, NoUser>>,
            notifications |-> NoList, unreadCount |-> 0,
            loading |-> TRUE, calls |-> <<>>]

\* ------------------------------------------------- ConnectionErrorHandler
automaticRetryEnabled == TRUE

\* ArmTimer with a constant delay: no backoff.
ArmTimerConstantDelay(c, isErr, fromFirstRender) ==
    IF isErr /\ automaticRetryEnabled /\ c.retryCount < MAX_AUTO_RETRIES
    THEN [c EXCEPT !.timer = RETRY_BASE, !.fnDefined = fromFirstRender]
    ELSE [c EXCEPT !.timer = NoTimer, !.fnDefined = FALSE]

\* The effect body: arm the timer when the error is shown and the budget
\* is not used up. The timer's callback closes over the handleRetry, and so
\* the retryConnection, of the render the effect belongs to.
ArmTimer(c, isErr, fromFirstRender) ==
    IF isErr /\ automaticRetryEnabled /\ c.retryCount < MAX_AUTO_RETRIES
    THEN [c EXCEPT !.timer = RETRY_BASE * (c.retryCount + 1),
                   !.fnDefined = fromFirstRender]
    ELSE [c EXCEPT !.timer = NoTimer, !.fnDefined = FALSE]

\* The effect's cleanup: clearTimeout(retryTimer).
ClearTimer(c) == [c EXCEPT !.timer = NoTimer, !.fnDefined = FALSE]

\* The cleanup followed by the body, as React runs them when a dependency
\* (connectionError.isError, retryCount) has changed.
RunEffect(c, isErr, fromFirstRender) ==
    ArmTimer(ClearTimer(c), isErr, fromFirstRender)

\* CehSync with an effect that has no cleanup: a timer armed earlier stays.
CehSyncNoCleanup(c, oldErr, newErr) ==
    IF ~c.mounted \/ oldErr.isError = newErr.isError THEN c
    ELSE LET d == IF newErr.isError THEN ArmTimer(c, TRUE, FALSE) ELSE c
         IN  [d EXCEPT !.clean = newErr.isError /\ c.retryCount = 0, !.age = 0]

\* The handler after the provider committed a new connectionError. age and
\* clean observe the schedule: the seconds since this instance first saw the
\* error, while the error has persisted and no manual retry was made.
CehSync(c, oldErr, newErr) ==
    IF ~c.mounted \/ oldErr.isError = newErr.isError THEN c
    ELSE LET d == RunEffect(c, newErr.isError, FALSE)
         IN  [d EXCEPT !.clean = newErr.isError /\ c.retryCount = 0, !.age = 0]

\* ------------------------------------------------------------- the probe
\* checkSupabaseConnection: the second revision returns connected at once
\* when BYPASS_CONNECTION_CHECK is set; otherwise the verdict is the health
\* endpoint's.
ProbeVerdict == bypass \/ netUp

\* checkConnection's write of connectionError for a verdict.
CheckConnectionError(ok) == IF ok THEN NoError ELSE ConnErr(MsgProbe, NoCode)

\* ---------------------------------------------------------- fetchProfile
\* fetchProfile(userId) up to its await: the abort timer is armed and the
\* row query is in flight. The calls in flight are kept in starting order.
StartFetch(fs, u) == Append(fs, [userId |-> u])

CanFetch == Len(fetches) < MaxFetches

RemoveAt(q, k) == [j \in 1..(Len(q) - 1) |-> IF j < k THEN q[j] ELSE q[j + 1]]

Init ==
    /\ user = NoUser
    /\ profile = NoProfile
    /\ loading = TRUE
    /\ connectionError = NoError
    /\ isActive = TRUE
    /\ authSubscription = 0
    /\ rerendered = FALSE
    /\ subs = {}
    /\ nextSub = 1
    /\ netUp \in BOOLEAN
    /\ bypass \in BOOLEAN
    /\ backendSession \in Users \cup {NoUser}
    /\ inits = [i \in 1..MaxInits |->
                  IF i = 1 THEN [IdleInit EXCEPT !.pc = "probe"] ELSE IdleInit]
    /\ fetches = <<>>
    /\ retries = <<>>
    /\ ceh = NoCeh
    /\ signin = IdleSignIn
    /\ signup = IdleSignUp
    /\ signout = IdleSignOut
    /\ route = HomeRoute
    /\ probe = NoProbe
    /\ form = IdleForm
    /\ notif = NoNotif
    /\ lastAttempt = "none"
    /\ lastReturn = NoReturn

\* --------------------------------------------------------- initializeAuth
\* The retryConnection calls that await invocation i of initializeAuth
\* resume when it returns: return true.
Awaiting(i) == {r \in DOMAIN retries : retries[r].pc = "init" /\ retries[r].run = i}

Resume(i) ==
    IF Awaiting(i) = {}
    THEN UNCHANGED <<retries, lastReturn>>
    ELSE /\ retries' = RemoveAt(retries, CHOOSE r \in Awaiting(i) : TRUE)
         /\ lastReturn' = Returned("retryConnection", "true")

\* InitProbeDone without the early return on a failed probe.
InitProbeDoneNoReturn(i) ==
    /\ inits[i].pc = "probe"
    /\ connectionError' = CheckConnectionError(ProbeVerdict)
    /\ lastAttempt' = IF ProbeVerdict THEN "ok" ELSE "connfail"
    /\ inits' = [inits EXCEPT ![i] =
            [pc |-> "race", timer |-> SESSION_TIMEOUT, waited |-> 0,
             late |-> "none"]]
    /\ loading' = IF ProbeVerdict THEN loading ELSE FALSE
    /\ rerendered' = TRUE
    /\ ceh' = CehSync(ceh, connectionError, connectionError')
    /\ UNCHANGED <<user, profile, isActive, authSubscription, subs, nextSub,
                   netUp, bypass, backendSession, fetches, retries, lastReturn,
                   signin, signup, signout, route,
                   probe, form, notif>>

\* ProbeCall with the failure reported to the provider by the probe itself.
ProbeCallReports ==
    /\ probe.n < MaxProbes
    /\ probe' = [n |-> probe.n + 1, connected |-> ProbeVerdict,
                 net |-> netUp, session |-> backendSession]
    /\ connectionError' = CheckConnectionError(ProbeVerdict)
    /\ UNCHANGED <<user, profile, loading, isActive,
                   authSubscription, rerendered, subs, nextSub, netUp, bypass,
                   backendSession, inits, fetches, retries, ceh, signin,
                   signup, signout, route, lastAttempt, lastReturn, form,
                   notif>>

\* One call of checkSupabaseConnection() from request to result: GET
\* requests only, and a result object; probe records the verdict and the
\* backend state it was computed in.
ProbeCall ==
    /\ probe.n < MaxProbes
    /\ probe' = [n |-> probe.n + 1, connected |-> ProbeVerdict,
                 net |-> netUp, session |-> backendSession]
    /\ UNCHANGED <<user, profile, loading, connectionError, isActive,
                   authSubscription, rerendered, subs, nextSub, netUp, bypass,
                   backendSession, inits, fetches, retries, ceh, signin,
                   signup, signout, route, lastAttempt, lastReturn, form,
                   notif>>

\* The await of checkConnection() returns in invocation i.
InitProbeDone(i) ==
    /\ inits[i].pc = "probe"
    /\ LET ok == ProbeVerdict IN
       /\ connectionError' = CheckConnectionError(ok)
       /\ lastAttempt' = IF ok THEN "ok" ELSE "connfail"
       /\ IF ok
          THEN /\ inits' = [inits EXCEPT ![i] =
                     [pc |-> "race", timer |-> SESSION_TIMEOUT, waited |-> 0,
                      late |-> "none"]]
               /\ loading' = loading
               /\ UNCHANGED <<retries, lastReturn>>
          ELSE /\ inits' = [inits EXCEPT ![i].pc = "done"]
               /\ loading' = FALSE
               /\ Resume(i)
    /\ rerendered' = TRUE
    /\ ceh' = CehSync(ceh, connectionError, connectionError')
    /\ UNCHANGED <<user, profile, isActive, authSubscription, subs, nextSub,
                   netUp, bypass, backendSession, fetches,
                   signin, signup,
                   signout, route,
                   probe, form, notif>>

\* getSession() resolves in invocation i with the persisted session and
\* wins the race.
SessionResolved(i) ==
    /\ inits[i].pc = "race"
    /\ lastAttempt' = "ok"
    /\ IF isActive
       THEN /\ user' = backendSession
            /\ rerendered' = TRUE
            /\ IF backendSession # NoUser
               THEN /\ CanFetch
                    /\ fetches' = StartFetch(fetches, backendSession)
                    /\ loading' = loading
               ELSE /\ fetches' = fetches
                    /\ loading' = FALSE
            /\ subs' = subs \cup {nextSub}
            /\ authSubscription' = nextSub
            /\ nextSub' = nextSub + 1
       ELSE UNCHANGED <<user, rerendered, fetches, loading, subs,
                        authSubscription, nextSub>>
    /\ inits' = [inits EXCEPT ![i].pc = "done", ![i].timer = NoTimer,
                              ![i].late = "timer"]
    /\ Resume(i)
    /\ UNCHANGED <<profile, connectionError, isActive, netUp, bypass,
                   backendSession, ceh,
                   signin, signup,
                   signout, route,
                   probe, form, notif>>

\* SessionTimeout with the catch block's setLoading(false) left out.
SessionTimeoutKeepsLoading(i) ==
    /\ inits[i].pc = "race"
    /\ inits[i].timer = 0
    /\ lastAttempt' = "connfail"
    /\ IF isActive
       THEN /\ connectionError' = ConnErr(MsgSessionTimeout, NoCode)
            /\ rerendered' = TRUE
       ELSE UNCHANGED <<connectionError, rerendered>>
    /\ inits' = [inits EXCEPT ![i].pc = "done", ![i].timer = NoTimer,
                              ![i].late = "session"]
    /\ Resume(i)
    /\ ceh' = CehSync(ceh, connectionError, connectionError')
    /\ UNCHANGED <<user, profile, loading, isActive, authSubscription, subs,
                   nextSub, netUp, bypass, backendSession, fetches, signin,
                   signup,
                   signout, route,
                   probe, form, notif>>

\* The 8 s timer of invocation i fires first: timeoutPromise rejects and
\* the catch block runs.
SessionTimeout(i) ==
    /\ inits[i].pc = "race"
    /\ inits[i].timer = 0
    /\ lastAttempt' = "connfail"
    /\ IF isActive
       THEN /\ connectionError' = ConnErr(MsgSessionTimeout, NoCode)
            /\ loading' = FALSE
            /\ rerendered' = TRUE
       ELSE UNCHANGED <<connectionError, loading, rerendered>>
    /\ inits' = [inits EXCEPT ![i].pc = "done", ![i].timer = NoTimer,
                              ![i].late = "session"]
    /\ Resume(i)
    /\ ceh' = CehSync(ceh, connectionError, connectionError')
    /\ UNCHANGED <<user, profile, isActive, authSubscription, subs, nextSub,
                   netUp, bypass, backendSession, fetches,
                   signin, signup,
                   signout, route,
                   probe, form, notif>>

\* RaceLoserSettles with the late outcome applied as if it had won: a late
\* session is stored in user, a late rejection raises the timeout error.
RaceLoserSettlesApplies(i) ==
    /\ inits[i].late # "none"
    /\ inits' = [inits EXCEPT ![i].late = "none"]
    /\ IF inits[i].late = "session"
       THEN /\ user' = backendSession
            /\ loading' = FALSE
            /\ connectionError' = connectionError
       ELSE /\ connectionError' = ConnErr(MsgSessionTimeout, NoCode)
            /\ loading' = FALSE
            /\ user' = user
    /\ UNCHANGED <<profile, isActive,
                   authSubscription, rerendered, subs, nextSub, netUp, bypass,
                   backendSession, fetches, retries, ceh, lastAttempt, lastReturn,
                   signin, signup,
                   signout, route,
                   probe, form, notif>>

\* The loser of a decided race settles: a getSession() result after the
\* timeout, or the timer's rejection after the session arrived. Nothing
\* awaits either.
RaceLoserSettles(i) ==
    /\ inits[i].late # "none"
    /\ inits' = [inits EXCEPT ![i].late = "none"]
    /\ UNCHANGED <<user, profile, loading, connectionError, isActive,
                   authSubscription, rerendered, subs, nextSub, netUp, bypass,
                   backendSession, fetches, retries, ceh, lastAttempt, lastReturn,
                   signin, signup,
                   signout, route,
                   probe, form, notif>>

\* ---------------------------------------------------------- fetchProfile
\* What the row query of a fetchProfile call can come back with: the row,
\* a backend error ({data: null, error}), or a thrown exception.
FetchOutcomes == {"row", "error", "thrown"}

\* FetchSettle without the finally block's setLoading(false).
FetchSettleNoFinally(f, outcome) ==
    /\ profile' = IF outcome = "row" THEN fetches[f].userId ELSE profile
    /\ connectionError' =
          CASE outcome = "row" -> connectionError
            [] outcome = "error" -> ConnErr(MsgNoRows, "PGRST116")
            [] outcome = "aborted" -> ConnErr(MsgAbort, "")
            [] OTHER -> ConnErr(MsgFetchThrown, NoCode)
    /\ rerendered' = TRUE
    /\ lastAttempt' = IF outcome = "row" THEN "ok" ELSE "connfail"
    /\ fetches' = RemoveAt(fetches, f)
    /\ ceh' = CehSync(ceh, connectionError, connectionError')
    /\ UNCHANGED <<user, loading, isActive, authSubscription, subs, nextSub,
                   netUp, bypass, backendSession, inits, retries, lastReturn,
                   signin, signup, signout, route,
                   probe, form, notif>>

\* The code after the await of fetchProfile call f, for an outcome.
FetchSettle(f, outcome) ==
    /\ CASE outcome = "row" ->
              /\ profile' = fetches[f].userId
              /\ connectionError' = connectionError
         [] outcome = "error" ->
              /\ profile' = profile
              /\ connectionError' = ConnErr(MsgNoRows, "PGRST116")
         [] outcome = "aborted" ->
              /\ profile' = profile
              /\ connectionError' = ConnErr(MsgAbort, "")
         [] OTHER ->
              /\ profile' = profile
              /\ connectionError' = ConnErr(MsgFetchThrown, NoCode)
    /\ loading' = FALSE
    /\ rerendered' = TRUE
    /\ lastAttempt' = IF outcome = "row" THEN "ok" ELSE "connfail"
    /\ fetches' = RemoveAt(fetches, f)
    /\ ceh' = CehSync(ceh, connectionError, connectionError')
    /\ UNCHANGED <<user, isActive, authSubscription, subs, nextSub, netUp,
                   bypass, backendSession, inits, retries, lastReturn,
                   signin, signup,
                   signout, route,
                   probe, form, notif>>

\* The row query of call f settles before its abort timer fires.
FetchProfileDone(f) ==
    /\ f \in DOMAIN fetches
    /\ \E outcome \in FetchOutcomes : FetchSettle(f, outcome)

\* The 5 s timer of call f fires: controller.abort() ends the query with
\* an error.
FetchProfileAbort(f) ==
    /\ f \in DOMAIN fetches
    /\ FetchSettle(f, "aborted")

\* ------------------------------------------------- auth-state notifications
\* AuthStateChange whose callback forgets setProfile(null).
AuthStateChangeKeepsProfile(sub, s) ==
    /\ sub \in subs
    /\ backendSession' = s
    /\ IF isActive
       THEN /\ user' = s
            /\ rerendered' = TRUE
            /\ IF s # NoUser
               THEN /\ CanFetch
                    /\ fetches' = StartFetch(fetches, s)
                    /\ loading' = loading
               ELSE /\ loading' = FALSE
                    /\ fetches' = fetches
       ELSE UNCHANGED <<user, rerendered, fetches, loading>>
    /\ UNCHANGED <<profile, connectionError, isActive, authSubscription, subs,
                   nextSub, netUp, bypass, inits, retries, ceh, lastAttempt,
                   lastReturn, signin, signup, signout, route,
                   probe, form, notif>>

\* The backend's session changes to s and the callback registered as
\* subscription sub is called with it.
AuthStateChange(sub, s) ==
    /\ sub \in subs
    /\ backendSession' = s
    /\ IF isActive
       THEN /\ user' = s
            /\ rerendered' = TRUE
            /\ IF s # NoUser
               THEN /\ CanFetch
                    /\ fetches' = StartFetch(fetches, s)
                    /\ UNCHANGED <<profile, loading>>
               ELSE /\ profile' = NoProfile
                    /\ loading' = FALSE
                    /\ fetches' = fetches
       ELSE UNCHANGED <<user, rerendered, fetches, profile, loading>>
    /\ UNCHANGED <<connectionError, isActive, authSubscription, subs, nextSub,
                   netUp, bypass, inits, retries, ceh, lastAttempt, lastReturn,
                   signin, signup,
                   signout, route,
                   probe, form, notif>>

\* The backend's session changes while nothing is subscribed.
BackendSessionChange(s) ==
    /\ subs = {}
    /\ s # backendSession
    /\ backendSession' = s
    /\ UNCHANGED <<user, profile, loading, connectionError, isActive,
                   authSubscription, rerendered, subs, nextSub, netUp, bypass,
                   inits, fetches, retries, ceh, lastAttempt, lastReturn,
                   signin, signup,
                   signout, route,
                   probe, form, notif>>

\* The network to the backend goes down or comes back.
NetToggle ==
    /\ netUp' = ~netUp
    /\ UNCHANGED <<user, profile, loading, connectionError, isActive,
                   authSubscription, rerendered, subs, nextSub, bypass,
                   backendSession, inits, fetches, retries, ceh, lastAttempt,
                   lastReturn,
                   signin, signup,
                   signout, route,
                   probe, form, notif>>

\* ------------------------------------------------------- retryConnection
\* retryConnection() up to its await: setLoading(true), then the probe is in
\* flight. fnDefined: the closure called is the first render's, the only one
\* whose initializeAuthFn the effect has assigned.
StartRetry(rs, fromFirstRender) ==
    Append(rs, [pc |-> "probe", fnDefined |-> fromFirstRender, run |-> 0])

CanRetry == Len(retries) < MaxRetries

UnusedInit == {i \in 1..MaxInits : inits[i].pc = "unused"}

\* RetryProbeDone without the setLoading(false) before `return false`.
RetryProbeDoneKeepsLoading(r) ==
    /\ r \in DOMAIN retries
    /\ retries[r].pc = "probe"
    /\ connectionError' = CheckConnectionError(ProbeVerdict)
    /\ lastAttempt' = IF ProbeVerdict THEN "ok" ELSE "connfail"
    /\ retries' = RemoveAt(retries, r)
    /\ lastReturn' = Returned("retryConnection", "false")
    /\ rerendered' = TRUE
    /\ ceh' = CehSync(ceh, connectionError, connectionError')
    /\ UNCHANGED <<user, profile, loading, isActive, authSubscription, subs,
                   nextSub, netUp, bypass, backendSession, inits, fetches,
                   signin, signup, signout, route,
                   probe, form, notif>>

\* RetryProbeDone with an initializeAuthFn that every render can reach: a
\* successful probe always runs initializeAuth again.
RetryProbeDoneRerunsInit(r) ==
    /\ r \in DOMAIN retries
    /\ retries[r].pc = "probe"
    /\ LET ok == ProbeVerdict IN
       /\ connectionError' = CheckConnectionError(ok)
       /\ lastAttempt' = IF ok THEN "ok" ELSE "connfail"
       /\ IF ok /\ UnusedInit # {}
          THEN LET j == CHOOSE i \in UnusedInit : TRUE IN
               /\ inits' = [inits EXCEPT ![j].pc = "probe"]
               /\ retries' = [retries EXCEPT ![r].pc = "init", ![r].run = j]
               /\ UNCHANGED <<loading, lastReturn>>
          ELSE /\ loading' = FALSE
               /\ retries' = RemoveAt(retries, r)
               /\ lastReturn' = Returned("retryConnection", "false")
               /\ inits' = inits
    /\ rerendered' = TRUE
    /\ ceh' = CehSync(ceh, connectionError, connectionError')
    /\ UNCHANGED <<user, profile, isActive, authSubscription, subs, nextSub,
                   netUp, bypass, backendSession, fetches,
                   signin, signup,
                   signout, route,
                   probe, form, notif>>

\* The await of checkConnection() returns in call r.
RetryProbeDone(r) ==
    /\ r \in DOMAIN retries
    /\ retries[r].pc = "probe"
    /\ LET ok == ProbeVerdict IN
       /\ connectionError' = CheckConnectionError(ok)
       /\ lastAttempt' = IF ok THEN "ok" ELSE "connfail"
       /\ IF ok /\ retries[r].fnDefined /\ UnusedInit # {}
          THEN LET j == CHOOSE i \in UnusedInit : TRUE IN
               /\ inits' = [inits EXCEPT ![j].pc = "probe"]
               /\ retries' = [retries EXCEPT ![r].pc = "init", ![r].run = j]
               /\ UNCHANGED <<loading, lastReturn>>
          ELSE /\ loading' = FALSE
               /\ retries' = RemoveAt(retries, r)
               /\ lastReturn' = Returned("retryConnection", "false")
               /\ inits' = inits
    /\ rerendered' = TRUE
    /\ ceh' = CehSync(ceh, connectionError, connectionError')
    /\ UNCHANGED <<user, profile, isActive, authSubscription, subs, nextSub,
                   netUp, bypass, backendSession, fetches,
                   signin, signup,
                   signout, route,
                   probe, form, notif>>

\* ------------------------------------------------------------ Index page
\* What the Index page renders, its branches in the order of the code.
\* localLoading is the page's own flag, lowered 100 ms after loading ends.
\* With neither user nor profile, reading profile.role throws and the page
\* shows its dashboard error.
IndexView(localLoading) ==
    IF loading \/ localLoading THEN "skeleton"
    ELSE IF connectionError.isError THEN "connection-error"
    ELSE IF profile = NoProfile /\ user # NoUser THEN "provisioning"
    ELSE IF profile = NoProfile THEN "dashboard-error"
    ELSE "dashboard"

\* The Index page's effect on [user, loading]: without a user once loading
\* is over, it navigates to the authentication view.
IndexRedirect ==
    /\ isActive
    /\ route = HomeRoute
    /\ ~loading /\ user = NoUser
    /\ route' = AuthRoute
    /\ UNCHANGED <<user, profile, loading, connectionError, isActive,
                   authSubscription, rerendered, subs, nextSub, netUp, bypass,
                   backendSession, inits, fetches, retries, ceh, signin,
                   signup, signout, lastAttempt, lastReturn,
                   probe, form, notif>>

\* The "Retry Connection" button of the Index page's provisioning view.
IndexRetryClick ==
    /\ isActive
    /\ ~loading /\ ~connectionError.isError
    /\ user # NoUser /\ profile = NoProfile
    /\ CanRetry
    /\ loading' = TRUE
    /\ retries' = StartRetry(retries, ~rerendered)
    /\ rerendered' = TRUE
    /\ UNCHANGED <<user, profile, connectionError, isActive, authSubscription,
                   subs, nextSub, netUp, bypass, backendSession, inits, fetches,
                   ceh, lastAttempt, lastReturn,
                   signin, signup,
                   signout, route,
                   probe, form, notif>>

\* ------------------------------------------------- ConnectionErrorHandler
\* The handler is rendered (as <ConnectionErrorHandler />, without props) and
\* its effect runs.
CehMount ==
    /\ isActive
    /\ ~ceh.mounted
    /\ ceh' = ArmTimer([NoCeh EXCEPT !.mounted = TRUE,
                                     !.clean = connectionError.isError],
                       connectionError.isError, ~rerendered)
    /\ UNCHANGED <<user, profile, loading, connectionError, isActive,
                   authSubscription, rerendered, subs, nextSub, netUp, bypass,
                   backendSession, inits, fetches, retries, lastAttempt, lastReturn,
                   signin, signup,
                   signout, route,
                   probe, form, notif>>

\* The handler is unmounted: the effect's cleanup runs and its state is gone.
CehUnmount ==
    /\ ceh.mounted
    /\ ceh' = NoCeh
    /\ UNCHANGED <<user, profile, loading, connectionError, isActive,
                   authSubscription, rerendered, subs, nextSub, netUp, bypass,
                   backendSession, inits, fetches, retries, lastAttempt, lastReturn,
                   signin, signup,
                   signout, route,
                   probe, form, notif>>

\* HandleRetry with a manual retry that does not count.
HandleRetryManualFree(c, manual) ==
    LET d == RunEffect([c EXCEPT !.retryCount = IF manual THEN @ ELSE @ + 1],
                       connectionError.isError, ~rerendered)
    IN  IF manual THEN [d EXCEPT !.clean = FALSE, !.age = 0] ELSE d

\* handleRetry: setRetryCount(prev => prev + 1), which re-runs the effect,
\* then retryConnection().
HandleRetry(c, manual) ==
    LET d == RunEffect([c EXCEPT !.retryCount = @ + 1],
                       connectionError.isError, ~rerendered)
    IN  IF manual THEN [d EXCEPT !.clean = FALSE, !.age = 0] ELSE d

\* The retry timer fires.
CehAutoRetry ==
    /\ ceh.mounted
    /\ ceh.timer = 0
    /\ CanRetry
    /\ loading' = TRUE
    /\ retries' = StartRetry(retries, ceh.fnDefined)
    /\ ceh' = HandleRetry(ceh, FALSE)
    /\ rerendered' = TRUE
    /\ UNCHANGED <<user, profile, connectionError, isActive, authSubscription,
                   subs, nextSub, netUp, bypass, backendSession, inits, fetches,
                   lastAttempt, lastReturn,
                   signin, signup,
                   signout, route,
                   probe, form, notif>>

\* The handler's "Retry Connection" button (disabled while loading).
CehManualRetry ==
    /\ ceh.mounted
    /\ connectionError.isError
    /\ ~loading
    /\ ceh.retryCount < MaxRetryCount
    /\ CanRetry
    /\ loading' = TRUE
    /\ retries' = StartRetry(retries, ~rerendered)
    /\ ceh' = HandleRetry(ceh, TRUE)
    /\ rerendered' = TRUE
    /\ UNCHANGED <<user, profile, connectionError, isActive, authSubscription,
                   subs, nextSub, netUp, bypass, backendSession, inits, fetches,
                   lastAttempt, lastReturn,
                   signin, signup,
                   signout, route,
                   probe, form, notif>>

\* ------------------------------------------------------------------ signIn
\* Error messages of signInWithPassword. message.includes('network') ||
\* message.includes('Failed to fetch') holds of the network-shaped ones.
MsgBadCredentials == "Invalid login credentials"
MsgNetwork == "A network error occurred"
MsgFailedToFetch == "Failed to fetch"
MsgUnexpected == "Unexpected token < in JSON"
SignInMessages == {MsgBadCredentials, MsgNetwork, MsgFailedToFetch, MsgUnexpected}
IsNetworkShaped(m) == m \in {MsgNetwork, MsgFailedToFetch}

\* What signInWithPassword can come back with: success (a session for user
\* u), {error} returned, or an exception thrown.
SignInOutcomes ==
    [kind : {"ok"}, user : Users, message : {""}] \cup
    [kind : {"returned", "thrown"}, user : {NoUser}, message : SignInMessages]

SignInCall ==
    /\ isActive
    /\ signin.pc = "idle"
    /\ signin' = [pc |-> "call", error |-> "", probed |-> FALSE]
    /\ UNCHANGED <<user, profile, loading, connectionError, isActive,
                   authSubscription, rerendered, subs, nextSub, netUp, bypass,
                   backendSession, inits, fetches, retries, ceh, signup,
                   lastAttempt, lastReturn,
                   signout, route,
                   probe, form, notif>>

\* SignInResponse that takes every returned error for a connection problem.
SignInResponseFlagsAll(o) ==
    /\ signin.pc = "call"
    /\ o.kind # "ok"
    /\ signin' = IdleSignIn
    /\ connectionError' = ConnErr(MsgSignInConn, o.message)
    /\ lastReturn' = Rejected("signIn", o.message)
    /\ lastAttempt' = "connfail"
    /\ UNCHANGED <<user, profile, loading, isActive, authSubscription,
                   rerendered, subs, nextSub, netUp, bypass, backendSession,
                   inits, fetches, retries, ceh, signup,
                   signout, route,
                   probe, form, notif>>

\* SignInResponse that applies the new session itself.
SignInResponseSetsUser(o) ==
    /\ signin.pc = "call"
    /\ o.kind = "ok"
    /\ signin' = IdleSignIn
    /\ backendSession' = o.user
    /\ user' = o.user
    /\ lastReturn' = Returned("signIn", "resolved")
    /\ lastAttempt' = "ok"
    /\ UNCHANGED <<profile, loading, connectionError, isActive,
                   authSubscription, rerendered, subs, nextSub, netUp, bypass,
                   inits, fetches, retries, ceh, signup, signout, route,
                   probe, form, notif>>

\* The await of signInWithPassword settles with outcome o.
SignInResponse(o) ==
    /\ signin.pc = "call"
    /\ CASE o.kind = "ok" ->
              /\ signin' = IdleSignIn
              /\ backendSession' = o.user
              /\ lastReturn' = Returned("signIn", "resolved")
              /\ lastAttempt' = "ok"
         [] o.kind = "returned" /\ IsNetworkShaped(o.message) ->
              \* the secondary probe is issued
              /\ signin' = [pc |-> "probe", error |-> o.message, probed |-> TRUE]
              /\ UNCHANGED <<backendSession, lastReturn>>
              /\ lastAttempt' = "connfail"
         [] o.kind = "thrown" /\ IsNetworkShaped(o.message) ->
              \* inner catch: getSession() is awaited
              /\ signin' = [pc |-> "session", error |-> o.message, probed |-> FALSE]
              /\ UNCHANGED <<backendSession, lastReturn>>
              /\ lastAttempt' = "connfail"
         [] OTHER ->
              /\ signin' = IdleSignIn
              /\ backendSession' = backendSession
              /\ lastReturn' = Rejected("signIn", o.message)
              /\ lastAttempt' = IF o.message = MsgBadCredentials
                                THEN "credfail" ELSE "connfail"
    /\ UNCHANGED <<user, profile, loading, connectionError, isActive,
                   authSubscription, rerendered, subs, nextSub, netUp, bypass,
                   inits, fetches, retries, ceh, signup,
                   signout, route,
                   probe, form, notif>>

\* The await of checkSupabaseConnection() in signIn returns; the error is
\* thrown again and the inner catch awaits getSession().
SignInProbeDone ==
    /\ signin.pc = "probe"
    /\ IF ProbeVerdict
       THEN /\ UNCHANGED <<connectionError, rerendered>>
            /\ lastAttempt' = "ok"
       ELSE /\ connectionError' = ConnErr(MsgSignInConn, signin.error)
            /\ rerendered' = TRUE
            /\ lastAttempt' = "connfail"
    /\ signin' = [signin EXCEPT !.pc = "session"]
    /\ ceh' = CehSync(ceh, connectionError, connectionError')
    /\ UNCHANGED <<user, profile, loading, isActive, authSubscription, subs,
                   nextSub, netUp, bypass, backendSession, inits, fetches,
                   retries, signup, lastReturn,
                   signout, route,
                   probe, form, notif>>

\* The await of getSession() in the inner catch returns; the sign-in error is
\* thrown to the caller.
SignInSessionChecked ==
    /\ signin.pc = "session"
    /\ signin' = [IdleSignIn EXCEPT !.probed = signin.probed]
    /\ lastReturn' = Rejected("signIn", signin.error)
    /\ UNCHANGED <<user, profile, loading, connectionError, isActive,
                   authSubscription, rerendered, subs, nextSub, netUp, bypass,
                   backendSession, inits, fetches, retries, ceh, signup,
                   lastAttempt,
                   signout, route,
                   probe, form, notif>>

\* ------------------------------------------------------------------ signUp
Roles == {"student", "teacher", "admin"}
MsgDuplicate == "User already registered"
MsgWeakPassword == "Password should be at least 6 characters"
MsgNoUser == "No user data returned"
MsgProfileCreation == "Failed to create user profile"
AuthMessages == {MsgDuplicate, MsgWeakPassword}

\* What supabase.auth.signUp can come back with: the new identity, an
\* error, or neither.
SignUpOutcomes ==
    [kind : {"user"}, id : Users, message : {""}] \cup
    [kind : {"error"}, id : {NoUser}, message : AuthMessages] \cup
    [kind : {"nouser"}, id : {NoUser}, message : {""}]

InsertOutcomes == {"ok", "error"}

\* The fields of the sign-up form (Auth's useState values) and the six
\* digits generateUserId draws.
FullNames == {"Ann", "Bob"}
Grades == {"", "9"}
Sections == {"", "A"}
SubjectLists == {<<>>, <<"Math">>}
UserNums == {"100000", "999999"}

\* generateUserId: a prefix by role and a random number.
generateUserId(role, num) ==
    <<IF role = "student" THEN "ST" ELSE IF role = "teacher" THEN "TE" ELSE "AD",
      num>>

\* The userData objects Auth.handleSignUp builds for a role: full_name, role
\* and user_id, grade and section spread in for a student, subjects for a
\* teacher.
UserData(role) ==
    { [full_name |-> fn, role |-> role, user_id |-> generateUserId(role, num)]
        @@ (IF role = "student" THEN [grade |-> g, section |-> sec] ELSE NoRow)
        @@ (IF role = "teacher" THEN [subjects |-> sub] ELSE NoRow) :
      fn \in FullNames, num \in UserNums, g \in Grades, sec \in Sections,
      sub \in SubjectLists }

\* ProfileData with every role-specific key always present.
ProfileDataFlat(id, userData) ==
    [id |-> id, full_name |-> userData.full_name, role |-> userData.role,
     user_id |-> userData.user_id,
     grade |-> IF "grade" \in DOMAIN userData THEN userData.grade
               ELSE "undefined",
     section |-> IF "section" \in DOMAIN userData THEN userData.section
                 ELSE "undefined",
     subjects |-> IF "subjects" \in DOMAIN userData THEN userData.subjects
                  ELSE <<>>]

\* The profileData object signUp inserts: id of the new identity, the
\* input's full_name, role and user_id, and the conditional spreads.
ProfileData(id, userData) ==
    [id |-> id, full_name |-> userData.full_name, role |-> userData.role,
     user_id |-> userData.user_id]
      @@ (IF userData.role = "student"
          THEN [grade |-> userData.grade, section |-> userData.section]
          ELSE NoRow)
      @@ (IF userData.role = "teacher"
          THEN [subjects |-> userData.subjects]
          ELSE NoRow)

SignUpCall(role) ==
    /\ isActive
    /\ signup.pc = "idle"
    /\ \E userData \in UserData(role) :
         signup' = [pc |-> "auth", role |-> role, id |-> NoUser,
                    calls |-> <<"auth.signUp">>, input |-> userData,
                    row |-> NoRow]
    /\ UNCHANGED <<user, profile, loading, connectionError, isActive,
                   authSubscription, rerendered, subs, nextSub, netUp, bypass,
                   backendSession, inits, fetches, retries, ceh, signin,
                   lastAttempt, lastReturn,
                   signout, route,
                   probe, form, notif>>

\* SignUpAuthResponse without the check of authData.user.
SignUpAuthResponseNoUserCheck(o) ==
    /\ signup.pc = "auth"
    /\ IF o.kind = "error"
       THEN /\ signup' = [signup EXCEPT !.pc = "idle"]
            /\ lastReturn' = Rejected("signUp", o.message)
       ELSE /\ signup' = [signup EXCEPT !.pc = "insert", !.id = o.id,
                                        !.calls = Append(@, "profiles.insert"),
                                        !.row = ProfileData(o.id, signup.input)]
            /\ lastReturn' = lastReturn
    /\ UNCHANGED <<user, profile, loading, connectionError, isActive,
                   authSubscription, rerendered, subs, nextSub, netUp, bypass,
                   backendSession, inits, fetches, retries, ceh, signin,
                   lastAttempt,
                   signout, route,
                   probe, form, notif>>

\* SignUpAuthResponse that reports an auth rejection as a connection error.
SignUpAuthResponseFlagsError(o) ==
    /\ signup.pc = "auth"
    /\ o.kind = "error"
    /\ signup' = [signup EXCEPT !.pc = "idle"]
    /\ lastReturn' = Rejected("signUp", o.message)
    /\ connectionError' = ConnErr(o.message, NoCode)
    /\ UNCHANGED <<user, profile, loading, isActive, authSubscription,
                   rerendered, subs, nextSub, netUp, bypass, backendSession,
                   inits, fetches, retries, ceh, signin, lastAttempt, signout,
                   route,
                   probe, form, notif>>

\* The await of supabase.auth.signUp settles with outcome o.
SignUpAuthResponse(o) ==
    /\ signup.pc = "auth"
    /\ CASE o.kind = "error" ->
              /\ signup' = [signup EXCEPT !.pc = "idle"]
              /\ lastReturn' = Rejected("signUp", o.message)
         [] o.kind = "nouser" ->
              /\ signup' = [signup EXCEPT !.pc = "idle"]
              /\ lastReturn' = Rejected("signUp", MsgNoUser)
         [] OTHER ->
              /\ signup' = [signup EXCEPT !.pc = "insert", !.id = o.id,
                                          !.calls = Append(@, "profiles.insert"),
                                          !.row = ProfileData(o.id, signup.input)]
              /\ lastReturn' = lastReturn
    /\ UNCHANGED <<user, profile, loading, connectionError, isActive,
                   authSubscription, rerendered, subs, nextSub, netUp, bypass,
                   backendSession, inits, fetches, retries, ceh, signin,
                   lastAttempt,
                   signout, route,
                   probe, form, notif>>

\* SignUpInsertResponse that only logs profileError.
SignUpInsertResponseSwallows(o) ==
    /\ signup.pc = "insert"
    /\ signup' = [signup EXCEPT !.pc = "idle"]
    /\ lastReturn' = Returned("signUp", "resolved")
    /\ UNCHANGED <<user, profile, loading, connectionError, isActive,
                   authSubscription, rerendered, subs, nextSub, netUp, bypass,
                   backendSession, inits, fetches, retries, ceh, signin,
                   lastAttempt,
                   signout, route,
                   probe, form, notif>>

\* The await of the insert into profiles settles.
SignUpInsertResponse(o) ==
    /\ signup.pc = "insert"
    /\ signup' = [signup EXCEPT !.pc = "idle"]
    /\ lastReturn' = IF o = "ok" THEN Returned("signUp", "resolved")
                     ELSE Rejected("signUp", MsgProfileCreation)
    /\ UNCHANGED <<user, profile, loading, connectionError, isActive,
                   authSubscription, rerendered, subs, nextSub, netUp, bypass,
                   backendSession, inits, fetches, retries, ceh, signin,
                   lastAttempt,
                   signout, route,
                   probe, form, notif>>

\* -------------------------------------------------------- AnnouncementForm
\* form.role is the role of the profile useAuth() gives the form's current
\* render ("none": profile is null); form.pending counts the inserts awaited,
\* form.inserts the inserts issued, form.toast is the last toast shown.
FormRoles == Roles \cup {"none"}
MsgAdminOnly == "Only administrators can post announcements."
MsgPostFailed == "Failed to post announcement. Please try again."
MsgRowSecurity == "new row violates row-level security policy"

\* What the insert into announcements can come back with: no error, or an
\* error with or without a message.
FormInsertOutcomes ==
    [kind : {"ok"}, message : {""}] \cup
    [kind : {"error"}, message : {MsgRowSecurity, ""}]

\* The form renders with another profile; the effect on [profile] shows the
\* administrators-only error for a profile that is not an admin's.
FormProfile(r) ==
    /\ r # form.role
    /\ form' = [form EXCEPT !.role = r,
                            !.error = IF r \notin {"none", "admin"}
                                      THEN MsgAdminOnly ELSE @]
    /\ UNCHANGED <<user, profile, loading, connectionError, isActive,
                   authSubscription, rerendered, subs, nextSub, netUp, bypass,
                   backendSession, inits, fetches, retries, ceh, signin,
                   signup, signout, route, lastAttempt, lastReturn, probe,
                   notif>>

\* FormSubmit that only requires a profile.
FormSubmitAnyRole ==
    /\ IF form.role = "none"
       THEN form' = [form EXCEPT !.toast = "login"]
       ELSE /\ form.pending < MaxSubmits
            /\ form.inserts < MaxInserts
            /\ form' = [form EXCEPT !.isSubmitting = TRUE, !.error = "",
                                    !.pending = @ + 1, !.inserts = @ + 1]
    /\ UNCHANGED <<user, profile, loading, connectionError, isActive,
                   authSubscription, rerendered, subs, nextSub, netUp, bypass,
                   backendSession, inits, fetches, retries, ceh, signin,
                   signup, signout, route, lastAttempt, lastReturn, probe,
                   notif>>

\* onSubmit with validated data, up to its return or its await of the
\* insert.
FormSubmit ==
    /\ CASE form.role = "none" ->
              form' = [form EXCEPT !.toast = "login"]
         [] form.role # "admin" ->
              form' = [form EXCEPT !.toast = "denied"]
         [] OTHER ->
              /\ form.pending < MaxSubmits
              /\ form.inserts < MaxInserts
              /\ form' = [form EXCEPT !.isSubmitting = TRUE, !.error = "",
                                      !.pending = @ + 1, !.inserts = @ + 1]
    /\ UNCHANGED <<user, profile, loading, connectionError, isActive,
                   authSubscription, rerendered, subs, nextSub, netUp, bypass,
                   backendSession, inits, fetches, retries, ceh, signin,
                   signup, signout, route, lastAttempt, lastReturn, probe,
                   notif>>

\* The await of the insert settles: the success toast, or the catch block;
\* then the finally block.
FormInsertResponse(o) ==
    /\ form.pending > 0
    /\ form' = [form EXCEPT
            !.error = IF o.kind = "ok" THEN @
                      ELSE IF o.message # "" THEN o.message ELSE MsgPostFailed,
            !.toast = IF o.kind = "ok" THEN "posted" ELSE "failed",
            !.isSubmitting = FALSE,
            !.pending = @ - 1]
    /\ UNCHANGED <<user, profile, loading, connectionError, isActive,
                   authSubscription, rerendered, subs, nextSub, netUp, bypass,
                   backendSession, inits, fetches, retries, ceh, signin,
                   signup, signout, route, lastAttempt, lastReturn, probe,
                   notif>>

\* ----------------------------------------------------------- Notifications
\* notif.notifications gives every id its place in the list: absent, unread
\* or read. A call in flight keeps the list of the render it was started
\* from (snap), as the closures of markAsRead and markAllAsRead do.
\* notif.deps is the value of [open, user?.id] the effect last ran with.
Unread(list) == {i \in NotifIds : list[i] = "unread"}
MarkRead(list, ids) ==
    [i \in NotifIds |-> IF i \in ids /\ list[i] # "absent" THEN "read"
                        ELSE list[i]]

\* simulatedNotifications: "1" and "2" unread, and "3" read for a student or
\* a teacher.
Simulated(withThird) ==
    [i \in NotifIds |-> IF i = "3" THEN (IF withThird THEN "read" ELSE "absent")
                        ELSE "unread"]

\* What the select on notifications can come back with: an error, no rows
\* (the simulated list is used) or rows.
NotifFetchOutcomes ==
    [kind : {"error"}, list : {NoList}] \cup
    [kind : {"rows"}, list : {Simulated(TRUE), Simulated(FALSE),
                              [i \in NotifIds |-> IF i = "1" THEN "unread"
                                                  ELSE IF i = "2" THEN "read"
                                                  ELSE "absent"]}]
NotifUpdateOutcomes == [kind : {"settled", "thrown"}, list : {NoList}]

NotifSynced == notif.deps = <<notif.open, user>>

\* The sheet is opened or closed: onOpenChange={setOpen}.
NotifToggle ==
    /\ NotifSynced
    /\ notif' = [notif EXCEPT !.open = ~@]
    /\ UNCHANGED <<user, profile, loading, connectionError, isActive,
                   authSubscription, rerendered, subs, nextSub, netUp, bypass,
                   backendSession, inits, fetches, retries, ceh, signin,
                   signup, signout, route, lastAttempt, lastReturn, probe,
                   form>>

\* The effect on [open, user?.id]: fetchNotifications() when the sheet is
\* open, which returns at once without a user and otherwise raises loading
\* and awaits the select.
NotifEffect ==
    /\ ~NotifSynced
    /\ IF notif.open /\ user # NoUser
       THEN /\ Len(notif.calls) < MaxCalls
            /\ notif' = [notif EXCEPT
                    !.deps = <<notif.open, user>>,
                    !.loading = TRUE,
                    !.calls = Append(@, [op |-> "fetch", id |-> "",
                                         snap |-> notif.notifications])]
       ELSE notif' = [notif EXCEPT !.deps = <<notif.open, user>>]
    /\ UNCHANGED <<user, profile, loading, connectionError, isActive,
                   authSubscription, rerendered, subs, nextSub, netUp, bypass,
                   backendSession, inits, fetches, retries, ceh, signin,
                   signup, signout, route, lastAttempt, lastReturn, probe,
                   form>>

\* A click on the listed notification id: markAsRead(id) up to its await.
\* It returns at once when the notification is not in the list or is read.
MarkAsRead(id) ==
    /\ NotifSynced
    /\ notif.open /\ ~notif.loading
    /\ notif.notifications[id] = "unread"
    /\ Len(notif.calls) < MaxCalls
    /\ notif' = [notif EXCEPT
            !.calls = Append(@, [op |-> "mark", id |-> id,
                                 snap |-> notif.notifications])]
    /\ UNCHANGED <<user, profile, loading, connectionError, isActive,
                   authSubscription, rerendered, subs, nextSub, netUp, bypass,
                   backendSession, inits, fetches, retries, ceh, signin,
                   signup, signout, route, lastAttempt, lastReturn, probe,
                   form>>

\* The "Mark all read" button, shown while the list is not empty:
\* markAllAsRead() up to its await.
MarkAllAsRead ==
    /\ NotifSynced
    /\ notif.open
    /\ notif.notifications # NoList
    /\ Len(notif.calls) < MaxCalls
    /\ notif' = [notif EXCEPT
            !.calls = Append(@, [op |-> "markAll", id |-> "",
                                 snap |-> notif.notifications])]
    /\ UNCHANGED <<user, profile, loading, connectionError, isActive,
                   authSubscription, rerendered, subs, nextSub, netUp, bypass,
                   backendSession, inits, fetches, retries, ceh, signin,
                   signup, signout, route, lastAttempt, lastReturn, probe,
                   form>>

\* The await of call k settles with outcome o and the call runs to its end.
NotifSettle(k, o) ==
    /\ k \in DOMAIN notif.calls
    /\ LET c == notif.calls[k]
           rest == RemoveAt(notif.calls, k)
       IN  CASE c.op = "fetch" ->
                 /\ o \in NotifFetchOutcomes
                 /\ notif' = IF o.kind = "error"
                      THEN [notif EXCEPT !.loading = FALSE, !.calls = rest]
                      ELSE [notif EXCEPT
                              !.notifications = o.list,
                              !.unreadCount = Cardinality(Unread(o.list)),
                              !.loading = FALSE,
                              !.calls = rest]
            [] c.op = "mark" ->
                 /\ o \in NotifUpdateOutcomes
                 /\ notif' = IF o.kind = "thrown"
                      THEN [notif EXCEPT !.calls = rest]
                      ELSE [notif EXCEPT
                              !.notifications = MarkRead(c.snap, {c.id}),
                              !.unreadCount = IF @ > 0 THEN @ - 1 ELSE 0,
                              !.calls = rest]
            [] OTHER ->
                 /\ o \in NotifUpdateOutcomes
                 /\ notif' = IF o.kind = "thrown"
                      THEN [notif EXCEPT !.calls = rest]
                      ELSE [notif EXCEPT
                              !.notifications = MarkRead(c.snap, NotifIds),
                              !.unreadCount = 0,
                              !.calls = rest]
    /\ UNCHANGED <<user, profile, loading, connectionError, isActive,
                   authSubscription, rerendered, subs, nextSub, netUp, bypass,
                   backendSession, inits, fetches, retries, ceh, signin,
                   signup, signout, route, lastAttempt, lastReturn, probe,
                   form>>

\* ----------------------------------------------------------------- signOut
\* What supabase.auth.signOut can come back with.
SignOutOutcomes == {"ok", "error", "thrown"}

\* signOut() up to its await: one backend call is in flight. calls counts
\* the backend calls of this invocation.
SignOutCall ==
    /\ isActive
    /\ route = HomeRoute
    /\ signout.pc = "idle"
    /\ signout' = [pc |-> "call", calls |-> 1]
    /\ UNCHANGED <<user, profile, loading, connectionError, isActive,
                   authSubscription, rerendered, subs, nextSub, netUp, bypass,
                   backendSession, inits, fetches, retries, ceh, signin,
                   signup, route, lastAttempt, lastReturn,
                   probe, form, notif>>

\* The await of supabase.auth.signOut settles with outcome o: navigate on
\* success; a returned error is thrown past navigate into the catch, which
\* logs it.
SignOutResponse(o) ==
    /\ signout.pc = "call"
    /\ signout' = [signout EXCEPT !.pc = "idle"]
    /\ IF o = "ok"
       THEN /\ route' = AuthRoute
            /\ backendSession' = NoUser
       ELSE UNCHANGED <<route, backendSession>>
    /\ lastReturn' = Returned("signOut", "undefined")
    /\ UNCHANGED <<user, profile, loading, connectionError, isActive,
                   authSubscription, rerendered, subs, nextSub, netUp, bypass,
                   inits, fetches, retries, ceh, signin, signup, lastAttempt,
                   probe, form, notif>>

\* ------------------------------------------------------------- teardown
\* Unmount with a cleanup that only lowers the liveness flag.
UnmountKeepsSubscription ==
    /\ isActive
    /\ isActive' = FALSE
    /\ ceh' = NoCeh
    /\ UNCHANGED <<user, profile, loading, connectionError, authSubscription,
                   rerendered, subs, nextSub, netUp, bypass, backendSession,
                   inits, fetches, retries, signin, signup, signout, route,
                   lastAttempt, lastReturn,
                   probe, form, notif>>

\* The provider is unmounted: the effect's cleanup runs, and so do the
\* cleanups of the components below it.
Unmount ==
    /\ isActive
    /\ isActive' = FALSE
    /\ subs' = subs \ {authSubscription}
    /\ ceh' = NoCeh
    /\ UNCHANGED <<user, profile, loading, connectionError, authSubscription,
                   rerendered, nextSub, netUp, bypass, backendSession, inits,
                   fetches, retries, signin, signup, lastAttempt, lastReturn,
                   signout, route,
                   probe, form, notif>>

\* ------------------------------------------------------------------ time
Timers ==
    {inits[i].timer : i \in 1..MaxInits} \cup {ceh.timer}

Dec(t) == IF t > 0 THEN t - 1 ELSE t

Tick ==
    /\ \E t \in Timers : t > 0
    /\ \A t \in Timers : t # 0
    /\ inits' = [i \in 1..MaxInits |->
                   [inits[i] EXCEPT !.timer = Dec(@),
                                    !.waited = IF inits[i].pc = "race" THEN @ + 1 ELSE @]]
    /\ ceh' = [ceh EXCEPT !.timer = Dec(@),
                          !.age = IF ceh.clean /\ @ < AgeCap THEN @ + 1 ELSE @]
    /\ UNCHANGED <<user, profile, loading, connectionError, isActive,
                   authSubscription, rerendered, subs, nextSub, netUp, bypass,
                   backendSession, fetches, retries, lastAttempt, lastReturn,
                   signin, signup,
                   signout, route,
                   probe, form, notif>>

Next ==
    \/ \E i \in 1..MaxInits : InitProbeDone(i)
    \/ \E i \in 1..MaxInits : SessionResolved(i)
    \/ \E i \in 1..MaxInits : SessionTimeout(i)
    \/ \E i \in 1..MaxInits : RaceLoserSettles(i)
    \/ \E f \in 1..MaxFetches : FetchProfileDone(f)
    \/ \E f \in 1..MaxFetches : FetchProfileAbort(f)
    \/ \E sub \in 1..MaxInits, s \in Users \cup {NoUser} : AuthStateChange(sub, s)
    \/ \E s \in Users \cup {NoUser} : BackendSessionChange(s)
    \/ NetToggle
    \/ Unmount
    \/ Tick

NextRetry ==
    \/ \E i \in 1..MaxInits : InitProbeDone(i)
    \/ \E i \in 1..MaxInits : SessionResolved(i)
    \/ \E i \in 1..MaxInits : SessionTimeout(i)
    \/ \E f \in 1..MaxFetches : FetchProfileDone(f)
    \/ \E r \in 1..MaxRetries : RetryProbeDone(r)
    \/ IndexRetryClick
    \/ CehMount
    \/ CehUnmount
    \/ CehAutoRetry
    \/ CehManualRetry
    \/ NetToggle
    \/ Tick

SpecRetry == Init /\ [][NextRetry]_vars

NextSignIn ==
    \/ \E i \in 1..MaxInits : InitProbeDone(i)
    \/ \E i \in 1..MaxInits : SessionResolved(i)
    \/ \E f \in 1..MaxFetches : FetchProfileDone(f)
    \/ SignInCall
    \/ \E o \in SignInOutcomes : SignInResponse(o)
    \/ SignInProbeDone
    \/ SignInSessionChecked
    \/ \E sub \in 1..MaxInits, s \in Users \cup {NoUser} : AuthStateChange(sub, s)
    \/ NetToggle

SpecSignIn == Init /\ [][NextSignIn]_vars

NextSignUp ==
    \/ \E i \in 1..MaxInits : InitProbeDone(i)
    \/ \E i \in 1..MaxInits : SessionResolved(i)
    \/ \E f \in 1..MaxFetches : FetchProfileDone(f)
    \/ \E role \in Roles : SignUpCall(role)
    \/ \E o \in SignUpOutcomes : SignUpAuthResponse(o)
    \/ \E o \in InsertOutcomes : SignUpInsertResponse(o)

SpecSignUp == Init /\ [][NextSignUp]_vars

NextSignOut ==
    \/ \E i \in 1..MaxInits : InitProbeDone(i)
    \/ \E i \in 1..MaxInits : SessionResolved(i)
    \/ \E f \in 1..MaxFetches : FetchProfileDone(f)
    \/ \E sub \in 1..MaxInits, s \in Users \cup {NoUser} : AuthStateChange(sub, s)
    \/ SignOutCall
    \/ \E o \in SignOutOutcomes : SignOutResponse(o)

SpecSignOut == Init /\ [][NextSignOut]_vars

Spec == Init /\ [][Next]_vars

\* Initialization, notifications and retries under the event loop's
\* guarantees: a probe in flight settles, time passes, and a timer that has
\* run out fires (the session timer, the abort timer of a profile fetch).
\* Nothing is assumed of getSession() or of the row query.
NextLive ==
    \/ \E i \in 1..MaxInits : InitProbeDone(i)
    \/ \E i \in 1..MaxInits : SessionResolved(i)
    \/ \E i \in 1..MaxInits : SessionTimeout(i)
    \/ \E f \in 1..MaxFetches : FetchProfileDone(f)
    \/ \E f \in 1..MaxFetches : FetchProfileAbort(f)
    \/ \E sub \in 1..MaxInits, s \in Users \cup {NoUser} : AuthStateChange(sub, s)
    \/ \E r \in 1..MaxRetries : RetryProbeDone(r)
    \/ IndexRetryClick
    \/ NetToggle
    \/ Unmount
    \/ Tick

SpecLive ==
    /\ Init
    /\ [][NextLive]_vars
    /\ WF_vars(\E i \in 1..MaxInits : InitProbeDone(i))
    /\ WF_vars(\E i \in 1..MaxInits : SessionTimeout(i))
    /\ WF_vars(\E f \in 1..MaxFetches : FetchProfileAbort(f))
    /\ WF_vars(\E r \in 1..MaxRetries : RetryProbeDone(r))
    /\ WF_vars(Tick)

\* The Index page over the provider: initialization, notifications and the
\* page's redirect.
NextIndex ==
    \/ \E i \in 1..MaxInits : InitProbeDone(i)
    \/ \E i \in 1..MaxInits : SessionResolved(i)
    \/ \E i \in 1..MaxInits : SessionTimeout(i)
    \/ \E f \in 1..MaxFetches : FetchProfileDone(f)
    \/ \E sub \in 1..MaxInits, s \in Users \cup {NoUser} : AuthStateChange(sub, s)
    \/ IndexRedirect
    \/ NetToggle
    \/ Tick

SpecIndex == Init /\ [][NextIndex]_vars

\* The reachability probe called again and again while the backend and the
\* provider go their way.
NextProbe ==
    \/ ProbeCall
    \/ NetToggle
    \/ \E s \in Users \cup {NoUser} : BackendSessionChange(s)
    \/ \E i \in 1..MaxInits : InitProbeDone(i)
    \/ \E i \in 1..MaxInits : SessionResolved(i)
    \/ \E f \in 1..MaxFetches : FetchProfileDone(f)

SpecProbe == Init /\ [][NextProbe]_vars

\* One ConnectionErrorHandler instance, never unmounted, as the only caller
\* of retryConnection, over the first revision of the probe (a network
\* request of unknown latency).
InitHandler == Init /\ ~bypass

NextHandler ==
    \/ \E i \in 1..MaxInits : InitProbeDone(i)
    \/ \E i \in 1..MaxInits : SessionResolved(i)
    \/ \E i \in 1..MaxInits : SessionTimeout(i)
    \/ \E f \in 1..MaxFetches : FetchProfileDone(f)
    \/ \E r \in 1..MaxRetries : RetryProbeDone(r)
    \/ CehMount
    \/ CehAutoRetry
    \/ CehManualRetry
    \/ NetToggle
    \/ Tick

SpecHandler == InitHandler /\ [][NextHandler]_vars

\* The announcement form under changes of the profile.
NextAnnouncement ==
    \/ \E r \in FormRoles : FormProfile(r)
    \/ FormSubmit
    \/ \E o \in FormInsertOutcomes : FormInsertResponse(o)

SpecAnnouncement == Init /\ [][NextAnnouncement]_vars

\* The notification sheet of a signed-in user.
NextNotifications ==
    \/ \E i \in 1..MaxInits : InitProbeDone(i)
    \/ \E i \in 1..MaxInits : SessionResolved(i)
    \/ \E f \in 1..MaxFetches : FetchProfileDone(f)
    \/ NotifToggle
    \/ NotifEffect
    \/ \E id \in NotifIds : MarkAsRead(id)
    \/ MarkAllAsRead
    \/ \E k \in 1..MaxCalls, o \in NotifFetchOutcomes \cup NotifUpdateOutcomes :
          NotifSettle(k, o)

SpecNotifications == Init /\ [][NextNotifications]_vars

\* ================================================================ claims

\* C1: cancellation safety. Once the provider has been torn down, no step
\* (the completion of a probe, a session fetch, a profile fetch or a
\* notification that was in flight) changes user, profile, loading or
\* connectionError.
CancellationSafety == [][~isActive => provider' = provider]_vars

\* C2: timeout race. On a live provider, when the session race of an
\* initializeAuth run is decided by its timer, 8 seconds have passed since
\* the race began (and a pending race never waits longer), loading is false
\* afterwards, connectionError carries the timeout message, and the step
\* neither sets user nor starts a profile fetch.
TimedOut(i) ==
    inits[i].pc = "race" /\ inits'[i].pc = "done" /\ inits'[i].late = "session"

TimeoutRace ==
    /\ [](\A i \in 1..MaxInits : inits[i].pc = "race" => inits[i].waited <= 8)
    /\ [][\A i \in 1..MaxInits :
            (isActive /\ TimedOut(i)) =>
                /\ inits[i].waited = 8
                /\ loading' = FALSE
                /\ connectionError'.isError
                /\ connectionError'.message = MsgSessionTimeout
                /\ user' = user
                /\ fetches' = fetches]_vars

TimeoutRaceWitness ==
    /\ isActive
    /\ inits[1].pc = "done" /\ inits[1].late = "session"
    /\ ~loading
    /\ connectionError = ConnErr(MsgSessionTimeout, NoCode)
    /\ user = NoUser /\ fetches = <<>>

\* C3: ConnectionError invariant. On a live provider connectionError.isError
\* is true exactly when the most recent completed attempt to reach the
\* backend failed for a connectivity or server reason.
ConnectionErrorInvariant ==
    isActive => (connectionError.isError <=> lastAttempt = "connfail")

\* C4: a signIn whose backend call returns a credential rejection rejects
\* to the caller with that error at once: no probe is issued and user,
\* profile, loading and connectionError are left as they were.
CredentialOutcome ==
    [kind |-> "returned", user |-> NoUser, message |-> MsgBadCredentials]

CredentialRejection ==
    [][SignInResponse(CredentialOutcome) =>
          /\ lastReturn' = Rejected("signIn", MsgBadCredentials)
          /\ signin'.pc = "idle" /\ ~signin'.probed
          /\ provider' = provider]_vars

CredentialRejectionWitness ==
    /\ lastReturn = Rejected("signIn", MsgBadCredentials)
    /\ signin.pc = "idle" /\ ~signin.probed
    /\ ~connectionError.isError

\* C5: a signIn that fails with a network-shaped message issues the
\* secondary reachability probe, whether the failure is returned as an
\* error or thrown as an exception.
NetworkFailureProbes ==
    [][\A o \in SignInOutcomes :
          (o.kind # "ok" /\ IsNetworkShaped(o.message) /\ SignInResponse(o))
              => (signin'.pc = "probe" /\ signin'.probed)]_vars

\* C6: when the profile insert of a signUp fails after the identity was
\* created, signUp rejects with the profile-creation error, which is none
\* of the backend's auth errors; the provider's state, its profile
\* included, is untouched; and the backend calls made are the identity
\* creation and the insert, with none to undo the identity.
ProfileInsertFailure ==
    [][SignUpInsertResponse("error") =>
          /\ lastReturn' = Rejected("signUp", MsgProfileCreation)
          /\ lastReturn'.error \notin AuthMessages \cup {MsgNoUser}
          /\ provider' = provider
          /\ signup'.pc = "idle"
          /\ signup'.calls = <<"auth.signUp", "profiles.insert">>]_vars

ProfileInsertFailureWitness ==
    /\ lastReturn = Rejected("signUp", MsgProfileCreation)
    /\ signup.pc = "idle"
    /\ signup.id \in Users
    /\ signup.calls = <<"auth.signUp", "profiles.insert">>

\* C7: signUp issues the profile insert only as its second backend call,
\* after identity creation returned a user; when identity creation returns
\* an error signUp rejects with that error, when it returns no user with
\* "No user data returned", and in both cases identity creation stays the
\* only backend call.
SignUpOrdering ==
    /\ [](\A k \in DOMAIN signup.calls :
             signup.calls[k] = "profiles.insert" =>
                 k = 2 /\ signup.calls[1] = "auth.signUp" /\ signup.id \in Users)
    /\ [][\A o \in SignUpOutcomes :
            (o.kind # "user" /\ SignUpAuthResponse(o)) =>
                /\ lastReturn' = Rejected("signUp",
                                   IF o.kind = "error" THEN o.message ELSE MsgNoUser)
                /\ signup'.pc = "idle"
                /\ signup'.calls = <<"auth.signUp">>]_vars

SignUpOrderingWitness ==
    /\ lastReturn = Rejected("signUp", MsgDuplicate)
    /\ signup.pc = "idle"
    /\ signup.calls = <<"auth.signUp">>

\* A step in which the handler's retry timer fires and handleRetry runs.
AutoRetryFired ==
    /\ ceh.mounted /\ ceh.timer = 0
    /\ ceh'.mounted /\ ceh'.retryCount = ceh.retryCount + 1
    /\ Len(retries') = Len(retries) + 1

\* C8 as stated: while the error persists and no manual retry is made, the
\* automatic retries fire 5, 10 and 15 seconds after the handler first saw
\* the error.
RetryScheduleAt5_10_15 ==
    [][(AutoRetryFired /\ ceh.clean) =>
          ceh.age = RETRY_BASE * (ceh.retryCount + 1)]_vars

\* C8 as amended: the automatic retries are armed 5, 10 and 15 seconds after
\* the previous one, so they fire 5, 15 and 30 seconds after the handler
\* first saw the error; no timer is armed once three retries were made.
CumulativeDelay(k) == (RETRY_BASE * k * (k + 1)) \div 2

RetryScheduleCumulative ==
    /\ [](ceh.timer # NoTimer => ceh.retryCount < 3)
    /\ [][(AutoRetryFired /\ ceh.clean) =>
            /\ ceh.retryCount < 3
            /\ ceh.age = CumulativeDelay(ceh.retryCount + 1)]_vars

RetryScheduleWitness ==
    /\ ceh.mounted /\ ceh.clean /\ connectionError.isError
    /\ ceh.retryCount = 3 /\ ceh.age = 30 /\ ceh.timer = NoTimer

\* C9: a retry timer is pending only on a mounted handler while
\* connectionError.isError is true, and handleRetry runs from the timer only
\* then: once the error clears or the handler is torn down no automatic
\* retry follows.
RetryCancellation ==
    /\ [](ceh.timer # NoTimer => (ceh.mounted /\ connectionError.isError))
    /\ [][AutoRetryFired => connectionError.isError]_vars

RetryCancellationWitness ==
    /\ ceh.mounted /\ ~connectionError.isError
    /\ ceh.retryCount \in 1..2 /\ ceh.timer = NoTimer

\* C10: when the probe of a retryConnection call succeeds, the call
\* re-runs the initialization sequence (and so goes on to return true).
RetryRerunsInit ==
    [][\A r \in 1..MaxRetries :
          (ProbeVerdict /\ RetryProbeDone(r)) =>
              (r \in DOMAIN retries' /\ retries'[r].pc = "init")]_vars

\* C11: initializeAuth probes first. The session fetch of a run begins only
\* at the step in which its probe reports connected. When the probe reports
\* not connected, that step sets connectionError.isError, sets loading to
\* false and ends the run without a session fetch, a subscription, a write
\* of user or a profile fetch; a run that has ended never resumes.
InitializationOrder ==
    /\ [][\A i \in 1..MaxInits :
            (InitProbeDone(i) /\ ~ProbeVerdict) =>
                /\ connectionError'.isError /\ ~loading'
                /\ inits'[i].pc = "done" /\ inits'[i].timer = NoTimer
                /\ subs' = subs /\ authSubscription' = authSubscription
                /\ user' = user /\ fetches' = fetches]_vars
    /\ [][\A i \in 1..MaxInits :
            (inits[i].pc # "race" /\ inits'[i].pc = "race") =>
                (inits[i].pc = "probe" /\ ProbeVerdict)]_vars
    /\ [][\A i \in 1..MaxInits :
            inits[i].pc = "done" => inits'[i].pc = "done"]_vars

InitializationOrderWitness ==
    /\ inits[1].pc = "done" /\ inits[1].waited = 0
    /\ connectionError = ConnErr(MsgProbe, NoCode) /\ ~loading
    /\ subs = {} /\ nextSub = 1 /\ authSubscription = 0
    /\ user = NoUser /\ fetches = <<>>

\* C12: when the row query of a fetchProfile call returns the row, profile
\* becomes that row and connectionError.isError is false afterwards, also
\* when it was true before.
FetchSuccessClearsError ==
    [][\A f \in 1..MaxFetches :
          (f \in DOMAIN fetches /\ FetchSettle(f, "row")) =>
              (profile' = fetches[f].userId /\ ~connectionError'.isError)]_vars

\* The ways a fetchProfile call fails, with the message and code the
\* backend reports.
FetchFailures == {"error", "thrown", "aborted"}

FetchFailureError(outcome) ==
    CASE outcome = "error" -> ConnErr(MsgNoRows, "PGRST116")
      [] outcome = "aborted" -> ConnErr(MsgAbort, "")
      [] OTHER -> ConnErr(MsgFetchThrown, NoCode)

\* C13 as stated: when a fetchProfile call fails (error returned, exception
\* thrown, or aborted by its timer), connectionError is set with the
\* backend's message and code, profile is null afterwards and loading is
\* false.
FetchFailureNullProfile ==
    [][\A f \in 1..MaxFetches, o \in FetchFailures :
          (f \in DOMAIN fetches /\ FetchSettle(f, o)) =>
              /\ connectionError' = FetchFailureError(o)
              /\ profile' = NoProfile
              /\ ~loading']_vars

\* C13 as amended: when a fetchProfile call fails, connectionError is set
\* with the backend's message and code, loading is false, and profile is not
\* written: it is null if no earlier fetch had set it and keeps the earlier
\* row otherwise.
FetchFailureKeepsProfile ==
    [][\A f \in 1..MaxFetches, o \in FetchFailures :
          (f \in DOMAIN fetches /\ FetchSettle(f, o)) =>
              /\ connectionError' = FetchFailureError(o)
              /\ profile' = profile
              /\ ~loading']_vars

FetchFailureWitness ==
    /\ connectionError = ConnErr(MsgAbort, "")
    /\ ~loading /\ fetches = <<>>
    /\ user \in Users /\ profile \in Users /\ profile # user

\* C14: whether the backend's sign-out succeeds or returns an error, signOut
\* navigates to the authentication view, makes no second backend call and
\* resolves to its caller.
SignOutBestEffort ==
    [][\A o \in {"ok", "error"} :
          SignOutResponse(o) =>
              /\ route' = AuthRoute
              /\ signout'.pc = "idle" /\ signout'.calls = 1
              /\ lastReturn' = Returned("signOut", "undefined")]_vars

\* C15: once the provider is torn down none of the auth-state
\* subscriptions it created is still registered, at whatever point of the
\* initialization the teardown came, and none is created afterwards.
SubscriptionRelease == ~isActive => subs = {}

SubscriptionReleaseWitness ==
    /\ ~isActive /\ subs = {}
    /\ authSubscription = 1 /\ nextSub = 2

\* C16: a signIn that succeeds writes neither user nor profile. user
\* changes only in the step that applies the session fetched by
\* initializeAuth or in the auth-state callback; profile changes only when a
\* profile fetch started by one of the two settles, or in the callback.
SingleSourcedSession ==
    /\ [][\A o \in SignInOutcomes :
            (o.kind = "ok" /\ SignInResponse(o)) =>
                (user' = user /\ profile' = profile)]_vars
    /\ [][user' # user =>
            \/ \E i \in 1..MaxInits : SessionResolved(i)
            \/ \E sub \in subs, s \in Users \cup {NoUser} :
                  AuthStateChange(sub, s)]_vars
    /\ [][profile' # profile =>
            \/ \E f \in DOMAIN fetches, o \in FetchOutcomes : FetchSettle(f, o)
            \/ \E sub \in subs : AuthStateChange(sub, NoUser)]_vars

SingleSourcedSessionWitness ==
    /\ lastReturn = Returned("signIn", "resolved")
    /\ signin.pc = "idle"
    /\ backendSession \in Users /\ user # backendSession

\* C17: every auth-state notification delivered to a live provider sets
\* user to the notification's session user (null when there is none); with
\* a session user it starts a profile fetch for that id, without one it sets
\* profile to null and loading to false.
NotificationHandling ==
    [][\A sub \in subs, s \in Users \cup {NoUser} :
          (isActive /\ AuthStateChange(sub, s)) =>
              /\ user' = s
              /\ IF s # NoUser
                 THEN fetches' = Append(fetches, [userId |-> s])
                 ELSE /\ profile' = NoProfile /\ ~loading'
                      /\ fetches' = fetches]_vars

NotificationHandlingWitness ==
    /\ isActive /\ subs # {}
    /\ user \in Users /\ profile \in Users /\ profile # user
    /\ fetches = <<[userId |-> user]>>

\* C18: no step of signUp, whatever the outcome of the identity creation
\* and of the profile insert, changes connectionError, user, profile or
\* loading.
SignUpFrame ==
    [][(\/ \E role \in Roles : SignUpCall(role)
        \/ \E o \in SignUpOutcomes : SignUpAuthResponse(o)
        \/ \E o \in InsertOutcomes : SignUpInsertResponse(o))
          => provider' = provider]_vars

SignUpFrameWitness ==
    /\ lastReturn = Returned("signUp", "resolved")
    /\ signup.pc = "idle"
    /\ user = NoUser /\ profile = NoProfile /\ loading
    /\ connectionError = NoError

\* C19: on a live provider loading always ends: whenever loading is true
\* (from the start of initializeAuth, or set by retryConnection), it is
\* false at some later point, unless the provider is torn down first.
LoadingEnds == (isActive /\ loading) ~> (~loading \/ ~isActive)

LoadingEndsWitness ==
    /\ isActive /\ ~loading
    /\ retries = <<>> /\ fetches = <<>>
    /\ lastReturn = Returned("retryConnection", "false")
    /\ user \in Users /\ profile = user

\* C20: whenever loading is over and there is a user without a profile,
\* the Index page shows the provisioning view ("Setting up your account"),
\* not the connection-error view and not a dashboard.
ProvisioningIsNotAnError ==
    (~loading /\ user # NoUser /\ profile = NoProfile)
        => IndexView(FALSE) = "provisioning"

\* C21: whenever connectionError.isError is true the Index page is on
\* screen and shows its connection-error view: no dashboard, no skeleton, no
\* redirect to the authentication view.
ErrorViewPreempts ==
    connectionError.isError =>
        (route = HomeRoute /\ IndexView(FALSE) = "connection-error")

\* C22: the loser of the session race is discarded. When the 8 s timer won,
\* the getSession() result that arrives later changes none of user, profile,
\* loading and connectionError (and starts no fetch and no subscription);
\* when getSession() won, the timer's later rejection changes no state.
LoserSettled(i, kind) ==
    /\ inits[i].late = kind
    /\ inits'[i].late = "none"
    /\ inits'[i].pc = inits[i].pc

RaceLoserDiscarded ==
    [][\A i \in 1..MaxInits :
        /\ LoserSettled(i, "session") =>
              /\ provider' = provider
              /\ fetches' = fetches
              /\ subs' = subs
        /\ LoserSettled(i, "timer") =>
              UNCHANGED <<provider, isActive, authSubscription, subs, fetches,
                          retries, ceh, route, backendSession, netUp>>]_vars

RaceLoserDiscardedWitness ==
    /\ isActive
    /\ inits[1].pc = "done" /\ inits[1].late = "none"
    /\ connectionError = ConnErr(MsgSessionTimeout, NoCode)
    /\ backendSession \in Users
    /\ user = NoUser /\ profile = NoProfile /\ ~loading

SignUpPayload ==
    signup.row # NoRow =>
        LET row == signup.row
            userData == signup.input
        IN  /\ row.id = signup.id /\ signup.id \in Users
            /\ row.full_name = userData.full_name
            /\ row.role = userData.role
            /\ ("grade" \in DOMAIN row) <=> (userData.role = "student")
            /\ ("section" \in DOMAIN row) <=> (userData.role = "student")
            /\ ("subjects" \in DOMAIN row) <=> (userData.role = "teacher")
            /\ userData.role = "student" =>
                    row.grade = userData.grade /\ row.section = userData.section
            /\ userData.role = "teacher" => row.subjects = userData.subjects

SignUpPayloadWitness ==
    /\ signup.pc = "insert"
    /\ signup.input.role = "teacher"
    /\ signup.row = [id |-> "u2", full_name |-> "Bob", role |-> "teacher",
                     user_id |-> <<"TE", "100000">>, subjects |-> <<"Math">>]

\* C25: the profile belongs to the user. In every reachable state a profile
\* that is not null comes with a user that is not null, and it is that
\* user's row.
ProfileBelongsToUser ==
    profile # NoProfile => (user # NoUser /\ profile = user)

RetryBudget ==
    /\ [](ceh.timer # NoTimer => ceh.retryCount < MAX_AUTO_RETRIES)
    /\ [][AutoRetryFired => ceh.retryCount < MAX_AUTO_RETRIES]_vars
    /\ [][(CehAutoRetry \/ CehManualRetry) =>
              ceh'.retryCount = ceh.retryCount + 1]_vars
    /\ [][(ceh.mounted /\ ceh'.mounted) =>
              ceh'.retryCount >= ceh.retryCount]_vars

RetryBudgetWitness ==
    /\ ceh.mounted /\ connectionError.isError
    /\ ceh.retryCount = MAX_AUTO_RETRIES /\ ~ceh.clean
    /\ ceh.age < 15
    /\ ceh.timer = NoTimer

\* C28: no overlapping retries. At most one retryConnection call started by
\* the handler instance is in flight at any time, and the retry timer never
\* fires while an earlier retry of the instance has not completed.
NoOverlappingRetries ==
    /\ [](Len(retries) <= 1)
    /\ [][AutoRetryFired => retries = <<>>]_vars

UnreadCountConsistent ==
    notif.calls = <<>> =>
        notif.unreadCount = Cardinality(Unread(notif.notifications))
====
